---- MODULE Spec2Model ----
(***************************************************************************)
(* Pickup-order auto-reassign webhook service (src/server.js).            *)
(*                                                                         *)
(* A delivery is one POST to /webhooks/orders/create.  The handler is an   *)
(* async function: every stretch of code between two awaits runs           *)
(* atomically on the event loop, so each such stretch is one action.       *)
(*   Receive         lines 111-165  (entry up to the grace-period timer)   *)
(*   GraceTimerFires lines 165-176  (timer resolves, lookup query issued)  *)
(*   QueryReturns    lines 172-243  (query settles, loop up to 1st call)   *)
(*   MutationReturns lines 239-263  (mutation settles, loop continues)     *)
(* The downstream fulfillment system (SkuSavvy) is the environment.        *)
(*                                                                         *)
(* JavaScript strings that the code inspects (toLowerCase, includes,       *)
(* replace) are sequences of one-character strings; string literals that   *)
(* the code only copies into a response are TLA+ strings.                  *)
(***************************************************************************)
EXTENDS Integers, Sequences, FiniteSets, TLC

\* ------------------------------------------------------------------------
\* Bounds of the model
\* ------------------------------------------------------------------------
MaxShipments == 2       \* longest shipment list of the downstream order
MaxLines == 2           \* longest shipping_lines list given to the classifier
MaxName == 6            \* longest order name given to the key derivation

\* ------------------------------------------------------------------------
\* JavaScript string primitives
\* ------------------------------------------------------------------------
UpperLetters ==
  <<"A","B","C","D","E","F","G","H","I","J","K","L","M",
    "N","O","P","Q","R","S","T","U","V","W","X","Y","Z">>
LowerLetters ==
  <<"a","b","c","d","e","f","g","h","i","j","k","l","m",
    "n","o","p","q","r","s","t","u","v","w","x","y","z">>

\* String.prototype.toLowerCase, one character
toLowerChar(c) ==
  IF \E i \in 1..26 : UpperLetters[i] = c
  THEN LowerLetters[CHOOSE i \in 1..26 : UpperLetters[i] = c]
  ELSE c

\* String.prototype.toLowerCase
toLowerCase(s) == [i \in 1..Len(s) |-> toLowerChar(s[i])]

\* String.prototype.includes: sub occurs in s as a contiguous substring
includes(s, sub) ==
  \E i \in 1..(Len(s) - Len(sub) + 1) : SubSeq(s, i, i + Len(sub) - 1) = sub

\* String.prototype.replace(pattern, '') with a string pattern:
\* removes the first occurrence only
replaceFirst(s, pat) ==
  IF includes(s, pat)
  THEN LET i == CHOOSE k \in 1..(Len(s) - Len(pat) + 1) :
                  /\ SubSeq(s, k, k + Len(pat) - 1) = pat
                  /\ \A j \in 1..(k - 1) : SubSeq(s, j, j + Len(pat) - 1) # pat
       IN SubSeq(s, 1, i - 1) \o SubSeq(s, i + Len(pat), Len(s))
  ELSE s

\* a JavaScript object with optional fields is a function whose domain is
\* the set of fields that are present
Has(obj, f) == f \in DOMAIN obj

\* the value null
JsNull == [jsnull |-> TRUE]

\* ------------------------------------------------------------------------
\* String literals of the classifier (src/server.js:70-97)
\* ------------------------------------------------------------------------
KwPickupOrder == <<"p","i","c","k","u","p","-","o","r","d","e","r">>
KwPickup == <<"p","i","c","k","u","p">>
KwPickUp == <<"p","i","c","k"," ","u","p">>
KwLocal == <<"l","o","c","a","l">>
KwGenesis ==
  <<"g","e","n","e","s","i","s"," ","i","m","p","a","c","t"," ",
    "s","p","o","r","t","s">>

\* line.code || '' and line.title || '' : an absent or empty field is ''
FieldOrEmpty(line, f) == IF Has(line, f) THEN line[f] ELSE <<>>

\* variant of LineIsPickup that lacks the title 'pick up' test
LineIsPickupNoPickUp(line) ==
  LET code == toLowerCase(FieldOrEmpty(line, "code"))
      title == toLowerCase(FieldOrEmpty(line, "title"))
  IN \/ includes(title, KwGenesis)
     \/ includes(code, KwGenesis)
     \/ includes(code, KwPickup)
     \/ includes(title, KwPickup)
     \/ includes(code, KwLocal)

\* one iteration of the shipping-line loop: TRUE iff it returns true
LineIsPickup(line) ==
  LET code == toLowerCase(FieldOrEmpty(line, "code"))
      title == toLowerCase(FieldOrEmpty(line, "title"))
  IN \/ includes(title, KwGenesis)
     \/ includes(code, KwGenesis)
     \/ includes(code, KwPickup)
     \/ includes(title, KwPickup)
     \/ includes(title, KwPickUp)
     \/ includes(code, KwLocal)

\* variant of TagsArePickup that does not lower-case the tags
TagsArePickupCaseSensitive(order) ==
  /\ Has(order, "tags")
  /\ order.tags # <<>>
  /\ (includes(order.tags, KwPickupOrder) \/ includes(order.tags, KwPickup))

\* variant of TagsArePickup that applies the shipping-line keywords to the
\* tags as well
TagsArePickupLoose(order) ==
  /\ Has(order, "tags")
  /\ order.tags # <<>>
  /\ LET tags == toLowerCase(order.tags)
     IN \/ includes(tags, KwPickupOrder)
        \/ includes(tags, KwPickup)
        \/ includes(tags, KwPickUp)
        \/ includes(tags, KwLocal)

\* Method 1: order.tags is truthy and, lower-cased, contains a keyword
TagsArePickup(order) ==
  /\ Has(order, "tags")
  /\ order.tags # <<>>
  /\ LET tags == toLowerCase(order.tags)
     IN includes(tags, KwPickupOrder) \/ includes(tags, KwPickup)

\* Method 2: some shipping line is a pickup line
LinesArePickup(order) ==
  /\ Has(order, "shipping_lines")
  /\ Len(order.shipping_lines) > 0
  /\ \E i \in 1..Len(order.shipping_lines) :
        LineIsPickup(order.shipping_lines[i])

\* variant of isPickupOrder that also looks for the keyword in order.note
isPickupOrderAlsoNote(order) ==
  \/ TagsArePickup(order)
  \/ LinesArePickup(order)
  \/ Has(order, "note") /\ includes(toLowerCase(order.note), KwPickup)

isPickupOrder(order) == TagsArePickup(order) \/ LinesArePickup(order)

\* variant of LineRaises for a loop body that calls line.code.toLowerCase()
\* and line.title.toLowerCase() without the "|| ''" fallback
LineRaisesUnguarded(line) ==
  line = JsNull \/ ~Has(line, "code") \/ ~Has(line, "title")

\* line 81: reading line.code raises a TypeError when the array element is
\* null; an object without code or title does not raise
LineRaises(line) == line = JsNull

\* isPickupOrder raises instead of returning: the tags did not return true
\* and the loop reaches a line that raises before a line that returns true
isPickupOrderRaises(order) ==
  /\ ~TagsArePickup(order)
  /\ Has(order, "shipping_lines")
  /\ \E i \in 1..Len(order.shipping_lines) :
        /\ LineRaises(order.shipping_lines[i])
        /\ \A j \in 1..(i - 1) :
              /\ ~LineRaises(order.shipping_lines[j])
              /\ ~LineIsPickup(order.shipping_lines[j])


\* ------------------------------------------------------------------------
\* Configuration read from the process environment
\* ------------------------------------------------------------------------
AMERICANA_WAREHOUSE_ID == "wh-americana"
GENESIS_WAREHOUSE_ID == "wh-genesis"
SKUSAVVY_GRAPHQL_ENDPOINT == "https://skusavvy.example/graphql"

\* ------------------------------------------------------------------------
\* Errors a statement of the handler can throw.  message is what
\* error.message holds; code is error.code ("" when the error has none);
\* cause records what really happened, which the handler cannot see.
\* ------------------------------------------------------------------------
SyntaxErrorJson ==
  [name |-> "SyntaxError", code |-> "", cause |-> "payload",
   message |-> <<"U","n","e","x","p","e","c","t","e","d"," ",
                 "t","o","k","e","n">>]
TypeErrorOfNull ==
  [name |-> "TypeError", code |-> "", cause |-> "payload",
   message |-> <<"o","r","d","e","r"," ","i","s"," ","n","u","l","l">>]
TypeErrorNoName ==
  [name |-> "TypeError", code |-> "", cause |-> "payload",
   message |-> <<"n","a","m","e"," ","i","s"," ",
                 "u","n","d","e","f","i","n","e","d">>]

TypeErrorNullLine ==
  [name |-> "TypeError", code |-> "", cause |-> "payload",
   message |-> <<"l","i","n","e"," ","i","s"," ","n","u","l","l">>]

\* rejections of skuSavvyClient.request
ErrDns ==
  [name |-> "FetchError", code |-> "ENOTFOUND", cause |-> "transport",
   message |-> <<"g","e","t","a","d","d","r","i","n","f","o"," ",
                 "E","N","O","T","F","O","U","N","D">>]
ErrSocket ==
  [name |-> "FetchError", code |-> "ECONNRESET", cause |-> "transport",
   message |-> <<"s","o","c","k","e","t"," ","h","a","n","g"," ","u","p">>]
ErrOrderNotFound ==
  [name |-> "ClientError", code |-> "", cause |-> "absent",
   message |-> <<"O","r","d","e","r"," ","n","o","t"," ",
                 "f","o","u","n","d">>]
ErrUnauthorized ==
  [name |-> "ClientError", code |-> "", cause |-> "backend",
   message |-> <<"U","n","a","u","t","h","o","r","i","z","e","d",":"," ",
                 "d","a","t","a"," ","n","u","l","l">>]

MsgNotFound == <<"n","o","t"," ","f","o","u","n","d">>
MsgNull == <<"n","u","l","l">>

\* ------------------------------------------------------------------------
\* Responses: res.status(...).json(...)
\* ------------------------------------------------------------------------
IgnoredResponse ==
  [status |-> 200, body |-> [message |-> "Webhook ignored - not an order"]]

InvalidOrderResponse ==
  [status |-> 200, body |-> [message |-> "Invalid order data"]]

NotPickupResponse ==
  [status |-> 200,
   body |-> [message |-> "Not a pickup order", processed |-> FALSE]]

EndpointNotFoundResponse ==
  [status |-> 200,
   body |-> [error |-> "SkuSavvy API endpoint not found",
             endpoint |-> SKUSAVVY_GRAPHQL_ENDPOINT,
             processed |-> FALSE]]

NotSyncedResponse ==
  [status |-> 200,
   body |-> [message |-> "Order not synced to SkuSavvy yet",
             processed |-> FALSE,
             note |-> "Order may take a few minutes to sync from Shopify to SkuSavvy"]]

\* variant of NoShipmentsResponse that repeats the not-pickup body
NoShipmentsResponseAsNotPickup == NotPickupResponse

NoShipmentsResponse ==
  [status |-> 200,
   body |-> [message |-> "No shipments to reassign", processed |-> FALSE]]

SuccessResponse(order, count) ==
  [status |-> 200,
   body |-> [success |-> TRUE,
             orderId |-> order.id,
             orderNumber |-> order.order_number,
             shipmentsReassigned |-> count]]

\* variant of CatchResponse that answers 500
CatchResponse500(error) ==
  [status |-> 500, body |-> [error |-> error.message, processed |-> FALSE]]

\* the top-level catch
CatchResponse(error) ==
  [status |-> 200, body |-> [error |-> error.message, processed |-> FALSE]]


\* ------------------------------------------------------------------------
\* The synchronous part of the handler, from its entry to the first await.
\* Each stage yields an outcome: where the delivery goes next ("done",
\* "waiting", or "throw" inside the try block), the responses sent, the
\* steps executed, and the lookup key once it has been derived.
\* ------------------------------------------------------------------------
Responded(response, done) ==
  [to |-> "done", responses |-> <<response>>, steps |-> done,
   key |-> <<>>, error |-> JsNull]

Thrown(error, done) ==
  [to |-> "throw", responses |-> <<>>, steps |-> done,
   key |-> <<>>, error |-> error]

StartWait(key, done) ==
  [to |-> "waiting", responses |-> <<>>, steps |-> done,
   key |-> key, error |-> JsNull]

\* variant of TryCatch without the catch: the rejection of the async
\* handler is left unhandled and no response is sent
TryCatchNone(outcome) == outcome

\* try { ... } catch (error) { res.status(200).json({error, processed}) }
TryCatch(outcome) ==
  IF outcome.to = "throw"
  THEN Responded(CatchResponse(outcome.error), outcome.steps \cup {"catch"})
  ELSE outcome

\* order.name.replace('#APA', '').replace('#', '')
KwHashApa == <<"#","A","P","A">>
KwHash == <<"#">>
\* variant of SkuSavvyOrderId that strips the '#' only
SkuSavvyOrderIdHashOnly(name) == replaceFirst(name, KwHash)

SkuSavvyOrderId(name) == replaceFirst(replaceFirst(name, KwHashApa), KwHash)

\* variant of KeyStage without the await on the timer: the handler goes
\* straight on to the query
KeyStageNoWait(order, done) ==
  IF ~Has(order, "name")
  THEN Thrown(TypeErrorNoName, done \cup {"key"})
  ELSE [to |-> "querying", responses |-> <<>>,
        steps |-> done \cup {"key", "query"},
        key |-> SkuSavvyOrderId(order.name), error |-> JsNull]

\* variant of KeyStage that takes an absent name as the empty string
KeyStageDefaultName(order, done) ==
  StartWait(IF Has(order, "name") THEN SkuSavvyOrderId(order.name) ELSE <<>>,
            done \cup {"key", "wait"})

\* lines 159-165: derive the lookup key, start the grace-period timer
KeyStage(order, done) ==
  IF ~Has(order, "name")
  THEN Thrown(TypeErrorNoName, done \cup {"key"})
  ELSE StartWait(SkuSavvyOrderId(order.name), done \cup {"key", "wait"})

\* variant of ClassifyStage whose not-pickup branch does not return
ClassifyStageNoReturn(order, done) ==
  IF isPickupOrderRaises(order)
  THEN Thrown(TypeErrorNullLine, done \cup {"classify"})
  ELSE KeyStage(order, done \cup {"classify"})

\* lines 148-157: classify, answer a non-pickup order at once
ClassifyStage(order, done) ==
  IF isPickupOrderRaises(order)
  THEN Thrown(TypeErrorNullLine, done \cup {"classify"})
  ELSE IF ~isPickupOrder(order)
  THEN Responded(NotPickupResponse, done \cup {"classify"})
  ELSE KeyStage(order, done \cup {"classify"})

\* variant of IsInvalidOrder that tests the id only
IsInvalidOrderIdOnly(order) ==
  \/ ~Has(order, "id")
  \/ order.id = 0

\* !order.order_number || !order.id  (absent and 0 are both falsy)
IsInvalidOrder(order) ==
  \/ ~Has(order, "order_number")
  \/ order.order_number = 0
  \/ ~Has(order, "id")
  \/ order.id = 0

\* lines 137-141
ValidateStage(order, done) ==
  IF order = JsNull
  THEN Thrown(TypeErrorOfNull, done \cup {"validate"})
  ELSE IF IsInvalidOrder(order)
  THEN Responded(InvalidOrderResponse, done \cup {"validate"})
  ELSE ClassifyStage(order, done \cup {"validate"})

\* line 135: JSON.parse(rawBody.toString())
ParseStage(body, done) ==
  IF body.kind = "garbage"
  THEN Thrown(SyntaxErrorJson, done \cup {"parse"})
  ELSE ValidateStage(body.order, done \cup {"parse"})

\* lines 53-57: verification is bypassed
verifyShopifyWebhook(data, hmacHeader) == TRUE

ExpectedTopic == "orders/create"

\* variant of TopicStage whose topic branch does not return
TopicStageNoReturn(r) ==
  TryCatch(ParseStage(r.body, {"topic", "verify"}))

\* lines 122-134: topic check, verification call, then the try block
TopicStage(r) ==
  IF r.topic # ExpectedTopic
  THEN Responded(IgnoredResponse, {"topic"})
  ELSE LET isVerified == verifyShopifyWebhook(r.body, r.hmac)
       IN TryCatch(ParseStage(r.body, {"topic", "verify"}))


\* ------------------------------------------------------------------------
\* After the lookup query has settled (lines 172-263)
\* ------------------------------------------------------------------------
IsEndpointNotFound(error) == error.code = "ENOTFOUND"

\* variant of IsNotSyncedError that tests for 'null' only
IsNotSyncedErrorNullOnly(error) == includes(error.message, MsgNull)

IsNotSyncedError(error) ==
  includes(error.message, MsgNotFound) \/ includes(error.message, MsgNull)

\* variant of QueryCatch that waits again and retries when the order is
\* not synced yet
QueryCatchRetry(error, done) ==
  IF IsEndpointNotFound(error)
  THEN Responded(EndpointNotFoundResponse, done \cup {"queryCatch"})
  ELSE IF IsNotSyncedError(error)
  THEN StartWait(<<>>, done \cup {"queryCatch"})
  ELSE Thrown(error, done \cup {"queryCatch"})

\* lines 181-212: the catch around the query
QueryCatch(error, done) ==
  IF IsEndpointNotFound(error)
  THEN Responded(EndpointNotFoundResponse, done \cup {"queryCatch"})
  ELSE IF IsNotSyncedError(error)
  THEN Responded(NotSyncedResponse, done \cup {"queryCatch"})
  ELSE Thrown(error, done \cup {"queryCatch"})

\* variant of HasNoShipments that tests for a null order only
HasNoShipmentsNullOnly(data) == data.order = JsNull

\* !orderData.order || !orderData.order.shipments?.length
HasNoShipments(data) ==
  \/ data.order = JsNull
  \/ Len(data.order.shipments) = 0

\* variant of AlreadyAssigned that never skips
AlreadyAssignedNever(shipment) == FALSE

\* variant of AlreadyAssigned that compares with the source warehouse
AlreadyAssignedGenesis(shipment) ==
  shipment.warehouseId = GENESIS_WAREHOUSE_ID

\* shipment.warehouseId === process.env.AMERICANA_WAREHOUSE_ID
AlreadyAssigned(shipment) == shipment.warehouseId = AMERICANA_WAREHOUSE_ID

\* the for-of loop runs on from position from: the position of the next
\* shipment that is not skipped, or Len + 1 when the loop ends
NextToReassign(shipments, from) ==
  IF \E j \in from..Len(shipments) : ~AlreadyAssigned(shipments[j])
  THEN CHOOSE j \in from..Len(shipments) :
         /\ ~AlreadyAssigned(shipments[j])
         /\ \A k \in from..(j - 1) : AlreadyAssigned(shipments[k])
  ELSE Len(shipments) + 1

\* parseInt of a string of decimal digits; NaN is written -1
Digits == <<"0","1","2","3","4","5","6","7","8","9">>
IsDigit(c) == \E n \in 1..10 : Digits[n] = c
DigitValue(c) == (CHOOSE n \in 1..10 : Digits[n] = c) - 1
RECURSIVE ParseDigits(_, _)
ParseDigits(s, acc) ==
  IF s = <<>> \/ ~IsDigit(Head(s))
  THEN acc
  ELSE ParseDigits(Tail(s), 10 * acc + DigitValue(Head(s)))
ParseInt(s) ==
  IF s = <<>> \/ ~IsDigit(Head(s)) THEN -1 ELSE ParseDigits(s, 0)

\* variant of MutationRequest that names the first shipment of the list
\* whatever shipment the loop is at
MutationRequestFirstShipment(data, shipment) ==
  [orderId |-> data.order.id,
   shipmentId |-> ParseInt(data.order.shipments[1].id),
   outcome |-> "pending"]

\* lines 239-243: the variables of one REASSIGN_MUTATION request
MutationRequest(data, shipment) ==
  [orderId |-> data.order.id,
   shipmentId |-> ParseInt(shipment.id),
   outcome |-> "pending"]

\* lines 227-263: the loop from position from, up to the next await or to
\* the final response
LoopStage(order, data, from, count, done) ==
  LET j == NextToReassign(data.order.shipments, from)
  IN IF j > Len(data.order.shipments)
     THEN Responded(SuccessResponse(order, count), done \cup {"loop"})
     ELSE [to |-> "mutating", responses |-> <<>>,
           steps |-> done \cup {"loop", "mutation"},
           key |-> <<>>, error |-> JsNull, idx |-> j,
           request |-> MutationRequest(data, data.order.shipments[j])]

\* lines 214-225
ShipmentsStage(order, data, done) ==
  IF HasNoShipments(data)
  THEN Responded(NoShipmentsResponse, done)
  ELSE LoopStage(order, data, 1, 0, done)

\* lines 172-225: what the handler does with the settled query
QueryStage(order, settled, done) ==
  IF settled.ok
  THEN ShipmentsStage(order, settled.data, done)
  ELSE QueryCatch(settled.error, done)

\* variant of CountAfter that counts every request, failed ones too
CountAfterAlways(count, outcome) == count + 1

\* lines 244-253: reassignedCount++ only when the request resolved
CountAfter(count, outcome) == IF outcome = "ok" THEN count + 1 ELSE count

\* variant of AfterMutation without the inner try/catch: a failed request
\* propagates to the top-level catch
AfterMutationRethrow(order, data, i, count, outcome, done) ==
  IF outcome = "ok"
  THEN LoopStage(order, data, i + 1, count + 1, done)
  ELSE Thrown(ErrSocket, done)

\* variant of AfterMutation that attempts the same shipment again when its
\* request failed
AfterMutationRetry(order, data, i, count, outcome, done) ==
  IF outcome = "ok"
  THEN LoopStage(order, data, i + 1, count + 1, done)
  ELSE LoopStage(order, data, i, count, done)

\* lines 239-254: the settled mutation is counted or its error is logged
\* and swallowed; either way the loop goes on with the next shipment
AfterMutation(order, data, i, count, outcome, done) ==
  LoopStage(order, data, i + 1, CountAfter(count, outcome), done)


\* ------------------------------------------------------------------------
\* Inputs of the handler: sample webhook requests
\* ------------------------------------------------------------------------
Topics == {"orders/create", "orders/updated", "Orders/Create"}

\* the X-Shopify-Hmac-Sha256 header: the HMAC of the body under the shared
\* secret ("valid") or anything else ("forged")
Hmacs == {"valid", "forged"}

NameApa101 == <<"#","A","P","A","1","0","1">>
NameHash102 == <<"#","1","0","2">>
TagPickupOrder == <<"P","i","c","k","u","p","-","O","r","d","e","r">>
TagVip == <<"v","i","p">>
StrLOCAL == <<"L","O","C","A","L">>
StrStore == <<"S","t","o","r","e">>
StrStandard == <<"s","t","a","n","d","a","r","d">>
StrStandardShipping ==
  <<"S","t","a","n","d","a","r","d"," ","S","h","i","p","p","i","n","g">>

\* pickup by tag, no shipping lines
OrderTagged ==
  [id |-> 5001, order_number |-> 101, name |-> NameApa101,
   tags |-> TagPickupOrder, shipping_lines |-> <<>>]
\* pickup by shipping-line code
OrderLocal ==
  [id |-> 5002, order_number |-> 101, name |-> NameApa101,
   tags |-> <<>>,
   shipping_lines |-> <<[code |-> StrLOCAL, title |-> StrStore]>>]
\* pickup, but its lookup key is unknown downstream
OrderOther ==
  [id |-> 5003, order_number |-> 102, name |-> NameHash102,
   tags |-> KwPickup]
\* not pickup
OrderStandard ==
  [id |-> 5004, order_number |-> 103, name |-> NameApa101,
   tags |-> TagVip,
   shipping_lines |-> <<[code |-> StrStandard,
                         title |-> StrStandardShipping]>>]
\* pickup without a name
OrderNoName == [id |-> 5005, order_number |-> 104, tags |-> KwPickup]
\* pickup orders lacking an identifying field
OrderNoNumber == [id |-> 5006, name |-> NameApa101, tags |-> KwPickup]
OrderNoId == [order_number |-> 101, name |-> NameApa101, tags |-> KwPickup]
\* "shipping_lines": [null]
OrderNullLine ==
  [id |-> 5007, order_number |-> 105, name |-> NameApa101,
   tags |-> TagVip, shipping_lines |-> <<JsNull>>]

HandlerOrders ==
  {OrderTagged, OrderLocal, OrderOther, OrderStandard, OrderNoName,
   OrderNoNumber, OrderNoId, OrderNullLine}

Bodies ==
  {[kind |-> "garbage"], [kind |-> "json", order |-> JsNull]}
  \cup {[kind |-> "json", order |-> o] : o \in HandlerOrders}

Requests ==
  {[topic |-> t, body |-> b, hmac |-> h] :
     t \in Topics, b \in Bodies, h \in Hmacs}

\* ------------------------------------------------------------------------
\* The downstream fulfillment system
\* ------------------------------------------------------------------------
DsOrderKey == <<"1","0","1">>
DsOrderUuid == "uuid-101"
Warehouses == {AMERICANA_WAREHOUSE_ID, GENESIS_WAREHOUSE_ID}
ShipmentIds == << <<"1","1">>, <<"1","2">>, <<"1","3">>, <<"1","4">> >>

\* the shipment lists the downstream order can have
ShipmentLists ==
  UNION {{[i \in 1..n |-> [id |-> ShipmentIds[i], warehouseId |-> w[i]]] :
            w \in [1..n -> Warehouses]} : n \in 0..MaxShipments}

Downstreams ==
  {[synced |-> FALSE, shipments |-> <<>>]}
  \cup {[synced |-> TRUE, shipments |-> l] : l \in ShipmentLists}

\* how a lookup query for key can settle in downstream state d
QueryOutcomes(key, d) ==
  LET found == d.synced /\ key = DsOrderKey
  IN (IF found
      THEN {[ok |-> TRUE,
             data |-> [order |-> [id |-> DsOrderUuid,
                                  shipments |-> d.shipments]]]}
      ELSE {[ok |-> TRUE, data |-> [order |-> JsNull]],
            [ok |-> FALSE, error |-> ErrOrderNotFound]})
     \cup {[ok |-> FALSE, error |-> e] :
             e \in {ErrDns, ErrSocket, ErrUnauthorized}}

\* how a reassign mutation can settle
MutationOutcomes == {"ok", "rejected", "transport"}

\* the downstream state after it has carried out a reassign mutation
Reassigned(d, request) ==
  [d EXCEPT !.shipments =
     [i \in 1..Len(@) |->
        IF ParseInt(@[i].id) = request.shipmentId
        THEN [@[i] EXCEPT !.warehouseId = AMERICANA_WAREHOUSE_ID]
        ELSE @[i]]]

\* ------------------------------------------------------------------------
\* State
\* ------------------------------------------------------------------------
Deliveries == {"A", "B"}

VARIABLES
  pc,               \* per delivery: off, idle, waiting, querying, mutating, done
  req,              \* per delivery: the request received
  resp,             \* per delivery: the responses sent, in order
  steps,            \* per delivery: the steps of the handler that have run
  waits,            \* per delivery: grace-period timers started
  skuSavvyOrderId,  \* per delivery: the lookup key
  queries,          \* per delivery: lookup queries issued (their keys)
  lookup,           \* per delivery: how the lookup query settled
  orderData,        \* per delivery: the data the lookup query resolved with
  idx,              \* per delivery: position of the loop in the shipment list
  reassignedCount,  \* per delivery
  mutations,        \* per delivery: reassign mutations issued, with outcome
  ds,               \* the downstream system
  cOrder,           \* classifier harness: the order given to isPickupOrder
  cDone,            \* classifier harness: the call of isPickupOrder is over
  cThrew,           \* classifier harness: it raised instead of returning
  cResult,          \* classifier harness: what it returned
  cTwin,            \* classifier harness: a second order given to it
  cTwinResult,      \* classifier harness: what it returned for cTwin
  kName,            \* key harness: the order name
  kDone,            \* key harness: the key has been derived
  kKey              \* key harness: the key derived from kName

handlerVars ==
  <<pc, req, resp, steps, waits, skuSavvyOrderId, queries, lookup, orderData,
    idx, reassignedCount, mutations, ds>>
classifierVars == <<cOrder, cDone, cThrew, cResult, cTwin, cTwinResult>>
keyVars == <<kName, kDone, kKey>>
vars == <<handlerVars, classifierVars, keyVars>>

OrderOf(d) == req[d].body.order

\* variant of CounterOwner in which reassignedCount is declared once, at
\* module scope, and every invocation of the handler counts in it
CounterOwnerModule(d) == CHOOSE e \in Deliveries : TRUE

\* line 225: let reassignedCount = 0 is a binding of the invocation of the
\* handler, so every delivery counts in a variable of its own
CounterOwner(d) == d

\* the state of the handler before any request, with the deliveries of
\* arriving still to come
HandlerInit(arriving) ==
  /\ pc = [d \in Deliveries |-> IF d \in arriving THEN "idle" ELSE "off"]
  /\ req = [d \in Deliveries |-> JsNull]
  /\ resp = [d \in Deliveries |-> <<>>]
  /\ steps = [d \in Deliveries |-> {}]
  /\ waits = [d \in Deliveries |-> 0]
  /\ skuSavvyOrderId = [d \in Deliveries |-> <<>>]
  /\ queries = [d \in Deliveries |-> <<>>]
  /\ lookup = [d \in Deliveries |-> JsNull]
  /\ orderData = [d \in Deliveries |-> JsNull]
  /\ idx = [d \in Deliveries |-> 0]
  /\ reassignedCount = [d \in Deliveries |-> 0]
  /\ mutations = [d \in Deliveries |-> <<>>]

KeyIdle ==
  /\ kName = <<>>
  /\ kDone = FALSE
  /\ kKey = <<>>

ClassifierIdle ==
  /\ cOrder = JsNull
  /\ cDone = FALSE
  /\ cThrew = FALSE
  /\ cResult = FALSE
  /\ cTwin = JsNull
  /\ cTwinResult = FALSE

Init ==
  /\ HandlerInit({"A"})
  /\ ds \in Downstreams
  /\ ClassifierIdle
  /\ KeyIdle

\* app.post('/webhooks/*', ...), registered after the order handler
CatchAllResponse ==
  [status |-> 200, body |-> [message |-> "Webhook ignored"]]

\* variant of HandlerCallsNext for a handler that ends with next()
HandlerCallsNextAlways == TRUE

\* the order handler has the signature (req, res) and never calls next(),
\* so Express runs no later route that matches the same request
HandlerCallsNext == FALSE

\* what the routes after the order handler send once it has returned
FallThrough(to) ==
  IF to = "done" /\ HandlerCallsNext THEN <<CatchAllResponse>> ELSE <<>>

\* the delivery moves on as the outcome of a stage says
Proceed(d, out) ==
  /\ pc' = [pc EXCEPT ![d] = out.to]
  /\ resp' = [resp EXCEPT ![d] = @ \o out.responses \o FallThrough(out.to)]
  /\ steps' = [steps EXCEPT ![d] = out.steps]
  /\ idx' = [idx EXCEPT ![d] = IF out.to = "mutating" THEN out.idx ELSE @]
  /\ mutations' = [mutations EXCEPT ![d] =
                     IF out.to = "mutating" THEN Append(@, out.request) ELSE @]

\* app.post('/webhooks/orders/create'): entry to the first await
Receive(d) ==
  /\ pc[d] = "idle"
  /\ \E r \in Requests :
       LET out == TopicStage(r)
       IN /\ req' = [req EXCEPT ![d] = r]
          /\ Proceed(d, out)
          /\ waits' = [waits EXCEPT ![d] =
                         IF out.to = "waiting" THEN @ + 1 ELSE @]
          /\ skuSavvyOrderId' = [skuSavvyOrderId EXCEPT ![d] = out.key]
  /\ UNCHANGED <<queries, lookup, orderData, reassignedCount, ds,
                 classifierVars, keyVars>>

\* the setTimeout promise resolves; the lookup query is issued
GraceTimerFires(d) ==
  /\ pc[d] = "waiting"
  /\ pc' = [pc EXCEPT ![d] = "querying"]
  /\ steps' = [steps EXCEPT ![d] = @ \cup {"query"}]
  /\ queries' = [queries EXCEPT ![d] = Append(@, skuSavvyOrderId[d])]
  /\ UNCHANGED <<req, resp, waits, skuSavvyOrderId, lookup, orderData, idx,
                 reassignedCount, mutations, ds, classifierVars, keyVars>>

\* the lookup query settles; the handler runs to the first mutation or to
\* its response
QueryReturns(d) ==
  /\ pc[d] = "querying"
  /\ \E settled \in QueryOutcomes(skuSavvyOrderId[d], ds) :
       /\ lookup' = [lookup EXCEPT ![d] = settled]
       /\ orderData' = [orderData EXCEPT ![d] =
                          IF settled.ok THEN settled.data ELSE @]
       /\ Proceed(d, TryCatch(QueryStage(OrderOf(d), settled, steps[d])))
  /\ UNCHANGED <<req, waits, skuSavvyOrderId, queries, reassignedCount, ds,
                 classifierVars, keyVars>>

\* the pending mutation settles; the loop goes on
MutationReturns(d) ==
  /\ pc[d] = "mutating"
  /\ \E outcome \in MutationOutcomes :
       LET n == Len(mutations[d])
           own == CounterOwner(d)
           count == CountAfter(reassignedCount[own], outcome)
           out == TryCatch(AfterMutation(OrderOf(d), orderData[d], idx[d],
                                         reassignedCount[own], outcome,
                                         steps[d]))
       IN /\ reassignedCount' = [reassignedCount EXCEPT ![own] = count]
          /\ ds' = IF outcome = "ok" THEN Reassigned(ds, mutations[d][n])
                   ELSE ds
          /\ pc' = [pc EXCEPT ![d] = out.to]
          /\ resp' = [resp EXCEPT ![d] =
                        @ \o out.responses \o FallThrough(out.to)]
          /\ steps' = [steps EXCEPT ![d] = out.steps]
          /\ idx' = [idx EXCEPT ![d] =
                       IF out.to = "mutating" THEN out.idx ELSE @]
          /\ mutations' = [mutations EXCEPT ![d] =
               LET settledList == [@ EXCEPT ![n].outcome = outcome]
               IN IF out.to = "mutating"
                  THEN Append(settledList, out.request)
                  ELSE settledList]
  /\ UNCHANGED <<req, waits, skuSavvyOrderId, queries, lookup, orderData,
                 classifierVars, keyVars>>

Next ==
  \E d \in Deliveries :
     \/ Receive(d)
     \/ GraceTimerFires(d)
     \/ QueryReturns(d)
     \/ MutationReturns(d)

Spec == Init /\ [][Next]_vars

\* two deliveries in flight at once: the handler is re-entered at every
\* await, so their steps interleave
InitPair ==
  /\ HandlerInit(Deliveries)
  /\ ds \in Downstreams
  /\ ClassifierIdle
  /\ KeyIdle

SpecPair == InitPair /\ [][Next]_vars

\* the event loop runs a timer that is due and the continuation of an
\* await whose promise can settle; the downstream answers or fails
Fairness ==
  \A d \in Deliveries :
     /\ WF_vars(GraceTimerFires(d))
     /\ WF_vars(QueryReturns(d))
     /\ WF_vars(MutationReturns(d))

FairSpec == Spec /\ Fairness


\* ------------------------------------------------------------------------
\* The classifier on its own: isPickupOrder applied to sample orders
\* ------------------------------------------------------------------------
StrStorePickup == <<"S","t","o","r","e"," ","P","i","c","k","u","p">>
StrPICKUP2 == <<"P","I","C","K"," ","U","P">>
StrLocalDelivery == <<"L","o","c","a","l"," ","D","e","l">>
StrGenesis ==
  <<"G","e","n","e","s","i","s"," ","I","m","p","a","c","t"," ",
    "S","p","o","r","t","s">>
TagVipPICKUP == <<"v","i","p",",","P","I","C","K","U","P">>
TagPickUpLocal == <<"p","i","c","k"," ","u","p",","," ","l","o","c","a","l">>

SampleTags == {<<>>, TagVip, TagVipPICKUP, TagPickupOrder, TagPickUpLocal}
SampleTexts ==
  {StrStorePickup, StrPICKUP2, StrLocalDelivery, StrGenesis, StrStandard}

NoFields == [f \in {} |-> 0]

\* the objects that have field f with a value of values, or lack it
Optional(f, values) == {NoFields} \cup {f :> v : v \in values}

SampleLines ==
  {c @@ t : c \in Optional("code", SampleTexts),
            t \in Optional("title", SampleTexts)}

SampleLineLists ==
  UNION {[1..n -> SampleLines] : n \in 0..MaxLines}

ClassifierOrders ==
  {t @@ l : t \in Optional("tags", SampleTags),
            l \in Optional("shipping_lines", SampleLineLists)}

InitClassify ==
  /\ HandlerInit({})
  /\ ds = [synced |-> FALSE, shipments |-> <<>>]
  /\ KeyIdle
  /\ cOrder \in ClassifierOrders
  /\ cDone = FALSE
  /\ cThrew = FALSE
  /\ cResult = FALSE
  /\ cTwin = JsNull
  /\ cTwinResult = FALSE

Classify ==
  /\ ~cDone
  /\ cDone' = TRUE
  /\ cThrew' = isPickupOrderRaises(cOrder)
  /\ cResult' = (~isPickupOrderRaises(cOrder) /\ isPickupOrder(cOrder))
  /\ cTwinResult' = (cTwin # JsNull /\ isPickupOrder(cTwin))
  /\ UNCHANGED <<cOrder, cTwin, handlerVars, keyVars>>

NextClassify == Classify

SpecClassify == InitClassify /\ [][NextClassify]_vars

\* orders whose shipping_lines array has a null element
LineStandard == [code |-> StrStandard, title |-> StrStandardShipping]
LinePickup == [code |-> StrStorePickup, title |-> StrStandardShipping]
MalformedLineLists ==
  {l \in UNION {[1..n -> {JsNull, LineStandard, LinePickup}] :
                  n \in 1..MaxLines} :
     \E i \in 1..Len(l) : l[i] = JsNull}
MalformedOrders ==
  {t @@ ("shipping_lines" :> l) :
     t \in Optional("tags", {TagVip, TagVipPICKUP}),
     l \in MalformedLineLists}

\* the classifier applied to well-formed and to malformed orders
InitClassifyRaw ==
  /\ HandlerInit({})
  /\ ds = [synced |-> FALSE, shipments |-> <<>>]
  /\ KeyIdle
  /\ cOrder \in ClassifierOrders \cup MalformedOrders
  /\ cDone = FALSE
  /\ cThrew = FALSE
  /\ cResult = FALSE
  /\ cTwin = JsNull
  /\ cTwinResult = FALSE

SpecClassifyRaw == InitClassifyRaw /\ [][NextClassify]_vars

\* a second order that has the same tags and shipping-line codes and
\* titles as order up to letter case, and other fields besides
toUpperChar(c) ==
  IF \E i \in 1..26 : LowerLetters[i] = c
  THEN UpperLetters[CHOOSE i \in 1..26 : LowerLetters[i] = c]
  ELSE c
toUpperCase(s) == [i \in 1..Len(s) |-> toUpperChar(s[i])]
UpperCased(order) ==
  [f \in DOMAIN order |->
     IF f = "tags"
     THEN toUpperCase(order.tags)
     ELSE [i \in 1..Len(order.shipping_lines) |->
             [g \in DOMAIN order.shipping_lines[i] |->
                toUpperCase(order.shipping_lines[i][g])]]]
LowerCased(order) ==
  [f \in DOMAIN order |->
     IF f = "tags"
     THEN toLowerCase(order.tags)
     ELSE [i \in 1..Len(order.shipping_lines) |->
             [g \in DOMAIN order.shipping_lines[i] |->
                toLowerCase(order.shipping_lines[i][g])]]]
StrPickupNote == <<"c","u","s","t","o","m","e","r"," ","p","i","c","k","u","p">>
OtherOrderFields ==
  [id |-> 7001, order_number |-> 701, name |-> NameApa101,
   note |-> StrPickupNote]
OtherLineFields == [source |-> StrStorePickup, price |-> 0]
WithOtherFields(order) ==
  [f \in DOMAIN order |->
     IF f = "tags"
     THEN order.tags
     ELSE [i \in 1..Len(order.shipping_lines) |->
             order.shipping_lines[i] @@ OtherLineFields]]
  @@ OtherOrderFields
Twins(order) ==
  {UpperCased(order), LowerCased(order), WithOtherFields(order),
   WithOtherFields(UpperCased(order))}

TwinTexts == {StrStorePickup, StrPICKUP2, StrStandard}
TwinLines ==
  {c @@ t : c \in Optional("code", TwinTexts),
            t \in Optional("title", TwinTexts)}
TwinLineLists == UNION {[1..n -> TwinLines] : n \in 0..MaxLines}
TwinOrders ==
  {t @@ l : t \in Optional("tags", SampleTags),
            l \in Optional("shipping_lines", TwinLineLists)}

\* the classifier applied to two such orders
InitClassifyTwin ==
  /\ HandlerInit({})
  /\ ds = [synced |-> FALSE, shipments |-> <<>>]
  /\ KeyIdle
  /\ cOrder \in TwinOrders
  /\ cTwin \in Twins(cOrder)
  /\ cDone = FALSE
  /\ cThrew = FALSE
  /\ cResult = FALSE
  /\ cTwinResult = FALSE

SpecClassifyTwin == InitClassifyTwin /\ [][NextClassify]_vars

\* ------------------------------------------------------------------------
\* The handler of src/register-webhook.js (lines 245-393): it looks the
\* order up by its name without the '#', takes the first element of the
\* orders list, and reassigns every shipment without looking at its
\* warehouse
\* ------------------------------------------------------------------------
\* const apaOrderNumber = order.name.replace('#', '')
apaOrderNumber(name) == replaceFirst(name, KwHash)

\* lines 350-375: every shipment gets a request; after the last one the
\* response
LoopStageAll(order, orderUUID, shipments, from, count, done) ==
  IF from > Len(shipments)
  THEN Responded(SuccessResponse(order, count), done \cup {"loop"})
  ELSE [to |-> "mutating", responses |-> <<>>,
        steps |-> done \cup {"loop", "mutation"},
        key |-> <<>>, error |-> JsNull, idx |-> from,
        request |-> [orderId |-> orderUUID,
                     shipmentId |-> ParseInt(shipments[from].id),
                     outcome |-> "pending"]]

\* lines 310-344: the settled query; an error is logged and rethrown
FindOrderStage(order, settled, done) ==
  IF ~settled.ok
  THEN Thrown(settled.error, done \cup {"queryCatch"})
  ELSE IF Len(settled.data.orders) = 0
  THEN Responded(NotSyncedResponse, done)
  ELSE IF Len(settled.data.orders[1].shipments) = 0
  THEN Responded(NoShipmentsResponse, done)
  ELSE LoopStageAll(order, settled.data.orders[1].id,
                    settled.data.orders[1].shipments, 1, 0, done)

\* variant of AfterMutationAll that leaves the loop at the first failed
\* request
AfterMutationAllStop(order, data, i, count, outcome, done) ==
  IF outcome = "ok"
  THEN LoopStageAll(order, data.orders[1].id, data.orders[1].shipments,
                    i + 1, count + 1, done)
  ELSE Responded(SuccessResponse(order, count), done \cup {"loop"})

\* lines 354-366: count a resolved request, swallow a rejected one, go on
AfterMutationAll(order, data, i, count, outcome, done) ==
  LoopStageAll(order, data.orders[1].id, data.orders[1].shipments,
               i + 1, CountAfter(count, outcome), done)

\* lines 257-299: the synchronous part, as in src/server.js but for the key
KeyStageApa(order, done) ==
  IF ~Has(order, "name")
  THEN Thrown(TypeErrorNoName, done \cup {"key"})
  ELSE StartWait(apaOrderNumber(order.name), done \cup {"key", "wait"})

ClassifyStageApa(order, done) ==
  IF isPickupOrderRaises(order)
  THEN Thrown(TypeErrorNullLine, done \cup {"classify"})
  ELSE IF ~isPickupOrder(order)
  THEN Responded(NotPickupResponse, done \cup {"classify"})
  ELSE KeyStageApa(order, done \cup {"classify"})

ValidateStageApa(order, done) ==
  IF order = JsNull
  THEN Thrown(TypeErrorOfNull, done \cup {"validate"})
  ELSE IF IsInvalidOrder(order)
  THEN Responded(InvalidOrderResponse, done \cup {"validate"})
  ELSE ClassifyStageApa(order, done \cup {"validate"})

ParseStageApa(body, done) ==
  IF body.kind = "garbage"
  THEN Thrown(SyntaxErrorJson, done \cup {"parse"})
  ELSE ValidateStageApa(body.order, done \cup {"parse"})

TopicStageApa(r) ==
  IF r.topic # ExpectedTopic
  THEN Responded(IgnoredResponse, {"topic"})
  ELSE TryCatch(ParseStageApa(r.body, {"topic", "verify"}))

\* the downstream order is known there as APA101
DsOrderApaNumber == <<"A","P","A","1","0","1">>

\* how FIND_ORDER_AND_SHIPMENTS_QUERY can settle: the orders list has the
\* order with the ids of its shipments, or is empty
FindOrderOutcomes(key, d) ==
  LET found == d.synced /\ key = DsOrderApaNumber
  IN {[ok |-> TRUE,
       data |-> [orders |->
                   IF found
                   THEN <<[id |-> DsOrderUuid,
                           shipments |->
                             [i \in 1..Len(d.shipments) |->
                                [id |-> d.shipments[i].id]]]>>
                   ELSE <<>>]]}
     \cup {[ok |-> FALSE, error |-> e] :
             e \in {ErrDns, ErrSocket, ErrUnauthorized}}

ReceiveApa(d) ==
  /\ pc[d] = "idle"
  /\ \E r \in Requests :
       LET out == TopicStageApa(r)
       IN /\ req' = [req EXCEPT ![d] = r]
          /\ Proceed(d, out)
          /\ waits' = [waits EXCEPT ![d] =
                         IF out.to = "waiting" THEN @ + 1 ELSE @]
          /\ skuSavvyOrderId' = [skuSavvyOrderId EXCEPT ![d] = out.key]
  /\ UNCHANGED <<queries, lookup, orderData, reassignedCount, ds,
                 classifierVars, keyVars>>

FindOrderReturns(d) ==
  /\ pc[d] = "querying"
  /\ \E settled \in FindOrderOutcomes(skuSavvyOrderId[d], ds) :
       /\ lookup' = [lookup EXCEPT ![d] = settled]
       /\ orderData' = [orderData EXCEPT ![d] =
                          IF settled.ok THEN settled.data ELSE @]
       /\ Proceed(d, TryCatch(FindOrderStage(OrderOf(d), settled, steps[d])))
  /\ UNCHANGED <<req, waits, skuSavvyOrderId, queries, reassignedCount, ds,
                 classifierVars, keyVars>>

MutationReturnsApa(d) ==
  /\ pc[d] = "mutating"
  /\ \E outcome \in MutationOutcomes :
       LET n == Len(mutations[d])
           count == CountAfter(reassignedCount[d], outcome)
           out == TryCatch(AfterMutationAll(OrderOf(d), orderData[d], idx[d],
                                            reassignedCount[d], outcome,
                                            steps[d]))
       IN /\ reassignedCount' = [reassignedCount EXCEPT ![d] = count]
          /\ ds' = IF outcome = "ok" THEN Reassigned(ds, mutations[d][n])
                   ELSE ds
          /\ pc' = [pc EXCEPT ![d] = out.to]
          /\ resp' = [resp EXCEPT ![d] = @ \o out.responses]
          /\ steps' = [steps EXCEPT ![d] = out.steps]
          /\ idx' = [idx EXCEPT ![d] =
                       IF out.to = "mutating" THEN out.idx ELSE @]
          /\ mutations' = [mutations EXCEPT ![d] =
               LET settledList == [@ EXCEPT ![n].outcome = outcome]
               IN IF out.to = "mutating"
                  THEN Append(settledList, out.request)
                  ELSE settledList]
  /\ UNCHANGED <<req, waits, skuSavvyOrderId, queries, lookup, orderData,
                 classifierVars, keyVars>>

NextApa ==
  \E d \in Deliveries :
     \/ ReceiveApa(d)
     \/ GraceTimerFires(d)
     \/ FindOrderReturns(d)
     \/ MutationReturnsApa(d)

SpecApa == Init /\ [][NextApa]_vars

\* ------------------------------------------------------------------------
\* The lookup key on its own: line 160 applied to sample order names
\* ------------------------------------------------------------------------
NameChars == {"#", "A", "P", "1", "0"}
SampleNames == UNION {[1..n -> NameChars] : n \in 0..MaxName}

InitKey ==
  /\ HandlerInit({})
  /\ ds = [synced |-> FALSE, shipments |-> <<>>]
  /\ ClassifierIdle
  /\ kName \in SampleNames
  /\ kDone = FALSE
  /\ kKey = <<>>

\* const skuSavvyOrderId = order.name.replace('#APA', '').replace('#', '')
DeriveKey ==
  /\ ~kDone
  /\ kDone' = TRUE
  /\ kKey' = SkuSavvyOrderId(kName)
  /\ UNCHANGED <<kName, handlerVars, classifierVars>>

NextKey == DeriveKey

SpecKey == InitKey /\ [][NextKey]_vars


\* ========================================================================
\* Properties
\* ========================================================================
Arrived(d) == pc[d] \notin {"off", "idle"}
Body(d) == resp[d][1].body
NotAtTarget(sh) == sh.warehouseId # AMERICANA_WAREHOUSE_ID
Failed(m) == m.outcome \in {"rejected", "transport"}
FoundShipments(d) == orderData[d].order.shipments
HasFoundShipments(d) ==
  /\ orderData[d] # JsNull
  /\ orderData[d].order # JsNull
  /\ Len(orderData[d].order.shipments) > 0
AttemptedIds(d) ==
  [i \in 1..Len(mutations[d]) |-> mutations[d][i].shipmentId]
ExpectedIds(d) ==
  LET todo == SelectSeq(FoundShipments(d), NotAtTarget)
  IN [i \in 1..Len(todo) |-> ParseInt(todo[i].id)]
OkCount(d) ==
  Cardinality({i \in 1..Len(mutations[d]) : mutations[d][i].outcome = "ok"})
NoDownstreamCall(d) == queries[d] = <<>> /\ mutations[d] = <<>>
LookupNotFound(d) ==
  /\ lookup[d] # JsNull
  /\ \/ lookup[d].ok /\ lookup[d].data.order = JsNull
     \/ ~lookup[d].ok /\ lookup[d].error.cause = "absent"

\* C1: every response of a delivery has HTTP status 200, and a delivery
\* that has ended has sent one response, whatever the topic, the body, the
\* classification and the outcomes of the downstream calls.
C1_AlwaysStatus200 ==
  \A d \in Deliveries :
     /\ \A i \in 1..Len(resp[d]) : resp[d][i].status = 200
     /\ pc[d] = "done" => Len(resp[d]) = 1

C1_Witness ==
  \E d \in Deliveries :
     /\ pc[d] = "done"
     /\ "catch" \in steps[d]
     /\ lookup[d] # JsNull
     /\ ~lookup[d].ok
     /\ resp[d][1].status = 200

\* C2: when a reassignment call of a delivery has failed, the delivery has
\* still attempted, once each and in list order, every shipment of the found
\* order that was not at the target warehouse, and its response reports as
\* shipmentsReassigned the number of calls that succeeded.
C2_FailureDoesNotAbort ==
  \A d \in Deliveries :
     (pc[d] = "done" /\ \E i \in 1..Len(mutations[d]) : Failed(mutations[d][i]))
     => /\ AttemptedIds(d) = ExpectedIds(d)
        /\ Len(resp[d]) = 1
        /\ Has(Body(d), "shipmentsReassigned")
        /\ Body(d).shipmentsReassigned = OkCount(d)

C2_Witness ==
  \E d \in Deliveries :
     /\ pc[d] = "done"
     /\ Len(mutations[d]) = 2
     /\ Failed(mutations[d][1])
     /\ mutations[d][2].outcome = "ok"
     /\ Body(d).shipmentsReassigned = 1

\* a delivery that found N >= 1 shipments and whose reassignment calls all
\* succeeded
AllSucceeded(d) ==
  /\ pc[d] = "done"
  /\ HasFoundShipments(d)
  /\ \A i \in 1..Len(mutations[d]) : mutations[d][i].outcome = "ok"
AlreadyCorrect(d) ==
  Len(FoundShipments(d)) - Len(SelectSeq(FoundShipments(d), NotAtTarget))

C5_NotPickupNoDownstream ==
  \A d \in Deliveries :
     (/\ Arrived(d)
      /\ "classify" \in steps[d]
      /\ ~isPickupOrderRaises(OrderOf(d))
      /\ ~isPickupOrder(OrderOf(d)))
     => /\ pc[d] = "done"
        /\ resp[d] = <<NotPickupResponse>>
        /\ waits[d] = 0
        /\ "wait" \notin steps[d]
        /\ NoDownstreamCall(d)

C5_Witness ==
  \E d \in Deliveries :
     /\ pc[d] = "done"
     /\ req[d].body = [kind |-> "json", order |-> OrderStandard]
     /\ "classify" \in steps[d]
     /\ resp[d] = <<NotPickupResponse>>

\* C6: a delivery whose topic header is not exactly 'orders/create' has
\* ended with the 200 'ignored' response; its body was not parsed, its
\* order not classified, no wait was started and no downstream call made.
C6_WrongTopicIgnored ==
  \A d \in Deliveries :
     (Arrived(d) /\ req[d].topic # "orders/create")
     => /\ pc[d] = "done"
        /\ resp[d] = <<[status |-> 200,
                        body |-> [message |->
                                    "Webhook ignored - not an order"]]>>
        /\ steps[d] \cap {"verify", "parse", "validate", "classify", "key",
                          "wait", "query", "mutation"} = {}
        /\ waits[d] = 0
        /\ NoDownstreamCall(d)

C6_Witness ==
  \E d \in Deliveries :
     /\ pc[d] = "done"
     /\ req[d].topic = "Orders/Create"
     /\ req[d].body = [kind |-> "json", order |-> OrderTagged]
     /\ resp[d] = <<IgnoredResponse>>

\* an order object without order_number or without id
LacksIdentifyingField(d) ==
  /\ req[d].body.kind = "json"
  /\ OrderOf(d) # JsNull
  /\ ~(Has(OrderOf(d), "order_number") /\ Has(OrderOf(d), "id"))

\* C7: a delivery with the expected topic whose order object lacks a
\* required identifying field has ended with the 'Invalid order data'
\* response, which has no error field; the order was not classified, no
\* wait was started and no downstream call made.
C7_InvalidOrderNeutral ==
  \A d \in Deliveries :
     (Arrived(d) /\ req[d].topic = "orders/create" /\ LacksIdentifyingField(d))
     => /\ pc[d] = "done"
        /\ resp[d] = <<[status |-> 200,
                        body |-> [message |-> "Invalid order data"]]>>
        /\ ~Has(Body(d), "error")
        /\ "classify" \notin steps[d]
        /\ waits[d] = 0
        /\ NoDownstreamCall(d)

C7_Witness ==
  \E d \in Deliveries :
     /\ pc[d] = "done"
     /\ req[d].topic = "orders/create"
     /\ req[d].body = [kind |-> "json", order |-> OrderNoNumber]
     /\ resp[d] = <<InvalidOrderResponse>>

\* C8: a delivery whose signature does not verify is never classified and
\* never causes a wait, a lookup query or a mutation.
C8_UnverifiedNeverProcessed ==
  \A d \in Deliveries :
     (Arrived(d) /\ req[d].hmac # "valid")
     => /\ steps[d] \cap {"classify", "wait", "query", "mutation"} = {}
        /\ waits[d] = 0
        /\ NoDownstreamCall(d)


\* kw (lower case) occurs in s when letter case is ignored
ContainsAnyCase(s, kw) ==
  \E i \in 0..(Len(s) - Len(kw)) :
     \A k \in 1..Len(kw) : toLowerChar(s[i + k]) = kw[k]
WordPickup == <<"p","i","c","k","u","p">>
WordPickUp == <<"p","i","c","k"," ","u","p">>
WordLocal == <<"l","o","c","a","l">>
WordLocation ==
  <<"g","e","n","e","s","i","s"," ","i","m","p","a","c","t"," ",
    "s","p","o","r","t","s">>
HasPickupTag(order) ==
  Has(order, "tags") /\ ContainsAnyCase(order.tags, WordPickup)
LinesOf(order) ==
  IF Has(order, "shipping_lines") THEN order.shipping_lines ELSE <<>>
TextOf(line, f) == IF Has(line, f) THEN line[f] ELSE <<>>

\* C9: an order with a tag containing "pickup" in any letter case is
\* classified as pickup, whatever its shipping lines.
C9_PickupTagIsPickup ==
  (cDone /\ HasPickupTag(cOrder)) => cResult = TRUE

\* an upper-case pickup tag together with shipping lines that are not pickup
C9_Witness ==
  /\ cDone
  /\ Has(cOrder, "tags")
  /\ cOrder.tags = TagVipPICKUP
  /\ Has(cOrder, "shipping_lines")
  /\ cOrder.shipping_lines
       = <<[code |-> StrStandard, title |-> StrStandard]>>
  /\ cResult = TRUE

\* C10 as stated: without a pickup tag, the order is pickup whenever the
\* code or the title of some shipping line contains "pickup", "pick up",
\* "local" or the pickup-location name.
C10_AsStated ==
  (/\ cDone
   /\ ~HasPickupTag(cOrder)
   /\ \E i \in 1..Len(LinesOf(cOrder)) :
         \E f \in {"code", "title"} :
            \E w \in {WordPickup, WordPickUp, WordLocal, WordLocation} :
               ContainsAnyCase(TextOf(LinesOf(cOrder)[i], f), w))
  => cResult = TRUE

\* C10 as amended: without a pickup tag, the order is pickup whenever some
\* shipping line has "pickup" or the pickup-location name in its code or
\* its title, or "pick up" in its title, or "local" in its code.
C10_LineKeywordIsPickup ==
  (/\ cDone
   /\ ~HasPickupTag(cOrder)
   /\ \E i \in 1..Len(LinesOf(cOrder)) :
         LET code == TextOf(LinesOf(cOrder)[i], "code")
             title == TextOf(LinesOf(cOrder)[i], "title")
         IN \/ ContainsAnyCase(code, WordPickup)
            \/ ContainsAnyCase(title, WordPickup)
            \/ ContainsAnyCase(code, WordLocation)
            \/ ContainsAnyCase(title, WordLocation)
            \/ ContainsAnyCase(title, WordPickUp)
            \/ ContainsAnyCase(code, WordLocal))
  => cResult = TRUE

\* no tags, a first line that is not pickup, a second line whose title
\* alone carries "pick up"
C10_Witness ==
  /\ cDone
  /\ ~Has(cOrder, "tags")
  /\ Has(cOrder, "shipping_lines")
  /\ cOrder.shipping_lines
       = <<[code |-> StrStandard, title |-> StrStandard],
           [code |-> StrStandard, title |-> StrPICKUP2]>>
  /\ cResult = TRUE


NoLineKeyword(order) ==
  \A i \in 1..Len(LinesOf(order)) :
     \A f \in {"code", "title"} :
        \A w \in {WordPickup, WordPickUp, WordLocal, WordLocation} :
           ~ContainsAnyCase(TextOf(LinesOf(order)[i], f), w)

\* C11: an order with no tag containing "pickup" and no shipping line whose
\* code or title contains "pickup", "pick up", "local" or the
\* pickup-location name is classified as not-pickup.
C11_NoKeywordIsNotPickup ==
  (cDone /\ ~HasPickupTag(cOrder) /\ NoLineKeyword(cOrder))
  => (~cThrew /\ cResult = FALSE)

\* tags that carry "pick up" and "local" but not "pickup", and a standard
\* shipping line
C11_Witness ==
  /\ cDone
  /\ Has(cOrder, "tags")
  /\ cOrder.tags = TagPickUpLocal
  /\ Has(cOrder, "shipping_lines")
  /\ cOrder.shipping_lines
       = <<[code |-> StrStandard, title |-> StrStandard]>>
  /\ cResult = FALSE

\* every element of shipping_lines is an object
LinesAreObjects(order) ==
  \A i \in 1..Len(LinesOf(order)) : LinesOf(order)[i] # JsNull

\* the order with every absent tags, shipping_lines, code and title
\* replaced by the empty value
Filled(order) ==
  [tags |-> IF Has(order, "tags") THEN order.tags ELSE <<>>,
   shipping_lines |->
     [i \in 1..Len(LinesOf(order)) |->
        [code |-> TextOf(LinesOf(order)[i], "code"),
         title |-> TextOf(LinesOf(order)[i], "title")]]]

\* C12: for an order whose tags, shipping_lines, and the code or title of
\* a shipping line may be absent or empty, the classifier does not raise;
\* it returns the boolean it returns for the order with the absent values
\* replaced by empty ones.
C12_MissingFieldsNeverRaise ==
  (cDone /\ LinesAreObjects(cOrder))
  => /\ ~cThrew
     /\ cResult \in BOOLEAN
     /\ cResult = isPickupOrder(Filled(cOrder))

\* no tags, and a single shipping line that has a title but no code
C12_Witness ==
  /\ cDone
  /\ ~Has(cOrder, "tags")
  /\ Has(cOrder, "shipping_lines")
  /\ Len(cOrder.shipping_lines) = 1
  /\ ~Has(cOrder.shipping_lines[1], "code")
  /\ Has(cOrder.shipping_lines[1], "title")
  /\ cOrder.shipping_lines[1].title = StrPICKUP2
  /\ ~cThrew
  /\ cResult = TRUE

\* the raise is a behaviour of the code: a null shipping line makes the
\* classifier raise
C12_RaiseReachable ==
  cDone /\ cThrew /\ ~LinesAreObjects(cOrder)


\* C13: a lookup that failed for a transport or protocol reason is never
\* answered as 'order not synced yet', and an absent order is never
\* answered with an error.
C13_NotFoundDistinguished ==
  \A d \in Deliveries :
     (pc[d] = "done" /\ lookup[d] # JsNull)
     => /\ (~lookup[d].ok /\ lookup[d].error.cause \in {"transport", "backend"})
           => resp[d] # <<NotSyncedResponse>>
        /\ LookupNotFound(d) => ~Has(Body(d), "error")


\* what happened to a delivery that has ended, told from its request and
\* from what the downstream did, not from its response
Outcome(d) ==
  IF req[d].topic # "orders/create" THEN "ignored-wrong-topic"
  ELSE IF LacksIdentifyingField(d) THEN "invalid-payload"
  ELSE IF /\ "classify" \in steps[d]
          /\ ~isPickupOrderRaises(OrderOf(d))
          /\ ~isPickupOrder(OrderOf(d)) THEN "not-pickup"
  ELSE IF LookupNotFound(d) THEN "order-not-yet-synced"
  ELSE IF lookup[d] # JsNull /\ lookup[d].ok /\ ~HasFoundShipments(d)
       THEN "no-shipments"
  ELSE IF lookup[d] # JsNull /\ lookup[d].ok
       THEN IF \E i \in 1..Len(mutations[d]) : Failed(mutations[d][i])
            THEN "partial-failure-with-counts"
            ELSE "success-with-counts"
  ELSE "error"

ListedOutcomes ==
  {"ignored-wrong-topic", "invalid-payload", "not-pickup",
   "order-not-yet-synced", "no-shipments", "success-with-counts",
   "partial-failure-with-counts"}

\* the outcomes that the bodies of the handler tell apart
CoarseOutcome(d) ==
  CASE Outcome(d) \in {"order-not-yet-synced", "no-shipments"}
         -> "nothing-to-reassign"
    [] Outcome(d) \in {"success-with-counts", "partial-failure-with-counts"}
         -> "loop-completed"
    [] OTHER -> Outcome(d)

\* the body without the order identifiers
StripIds(body) ==
  [f \in (DOMAIN body) \ {"orderId", "orderNumber"} |-> body[f]]

BothListed(d, e) ==
  /\ pc[d] = "done" /\ pc[e] = "done"
  /\ Outcome(d) \in ListedOutcomes
  /\ Outcome(e) \in ListedOutcomes

C14_SilentPartialFailure ==
  /\ pc["A"] = "done" /\ pc["B"] = "done"
  /\ Outcome("A") = "success-with-counts"
  /\ Outcome("B") = "partial-failure-with-counts"
  /\ StripIds(Body("A")) = StripIds(Body("B"))


\* C15: a delivery starts at most one grace-period wait and issues at most
\* one lookup query; the query is issued by the step in which the wait
\* completes and by no other, so a delivery that has a query in flight or
\* settled has waited exactly once.
C15_QueryAfterSingleWait ==
  /\ [](\A d \in Deliveries :
          /\ waits[d] <= 1
          /\ Len(queries[d]) <= 1
          /\ pc[d] = "waiting" => (waits[d] = 1 /\ queries[d] = <<>>)
          /\ (pc[d] \in {"querying", "mutating"} \/ lookup[d] # JsNull
                \/ queries[d] # <<>>)
             => (waits[d] = 1 /\ Len(queries[d]) = 1 /\ "wait" \in steps[d]))
  /\ [][\A d \in Deliveries :
          /\ queries'[d] # queries[d]
               => (pc[d] = "waiting" /\ pc'[d] = "querying")
          /\ waits'[d] # waits[d] => (pc[d] = "idle" /\ pc'[d] = "waiting")
       ]_vars

C15_Witness ==
  \E d \in Deliveries :
     /\ pc[d] = "mutating"
     /\ waits[d] = 1
     /\ queries[d] = <<DsOrderKey>>
     /\ lookup[d] # JsNull
     /\ lookup[d].ok

\* the lookup found the order and its shipment list is empty
FoundEmpty(d) ==
  /\ lookup[d] # JsNull
  /\ lookup[d].ok
  /\ lookup[d].data.order # JsNull
  /\ Len(lookup[d].data.order.shipments) = 0

\* C16: a delivery issues at most one lookup query; NotFound and an empty
\* shipment list end it without a mutation; and once a delivery has
\* responded it is over: no further query, mutation, wait or response.
C16_SingleQueryTerminal ==
  /\ [](\A d \in Deliveries :
          /\ Len(queries[d]) <= 1
          /\ (lookup[d] # JsNull /\ (LookupNotFound(d) \/ FoundEmpty(d)))
             => (pc[d] = "done" /\ Len(resp[d]) = 1 /\ mutations[d] = <<>>))
  /\ [][\A d \in Deliveries :
          pc[d] = "done"
          => /\ pc'[d] = "done"
             /\ queries'[d] = queries[d]
             /\ mutations'[d] = mutations[d]
             /\ waits'[d] = waits[d]
             /\ resp'[d] = resp[d]
       ]_vars

C16_Witness ==
  \E d \in Deliveries :
     /\ pc[d] = "done"
     /\ LookupNotFound(d)
     /\ lookup[d].ok
     /\ Len(queries[d]) = 1
     /\ mutations[d] = <<>>
     /\ resp[d] = <<NoShipmentsResponse>>


\* an exception none of the handler's branches anticipates: the body is
\* not JSON or is the JSON null, the classifier meets a null shipping
\* line, or the lookup fails for a reason that is neither the order's
\* absence nor an unresolvable endpoint
UnparseableBody(d) ==
  /\ req[d].topic = ExpectedTopic
  /\ \/ req[d].body.kind = "garbage"
     \/ OrderOf(d) = JsNull
ClassifierException(d) ==
  /\ req[d].topic = ExpectedTopic
  /\ req[d].body.kind = "json"
  /\ OrderOf(d) = OrderNullLine
OtherLookupFailure(d) ==
  /\ lookup[d] # JsNull
  /\ ~lookup[d].ok
  /\ lookup[d].error.cause # "absent"
  /\ lookup[d].error.code # "ENOTFOUND"
AnsweredAsError(d) ==
  /\ pc[d] = "done"
  /\ Len(resp[d]) = 1
  /\ resp[d][1].status = 200
  /\ Has(Body(d), "error")
  /\ Has(Body(d), "processed")
  /\ Body(d).processed = FALSE
  /\ mutations[d] = <<>>

\* C17: a delivery whose body cannot be parsed, whose classification
\* raises, or whose lookup fails for a reason other than not-found and
\* endpoint-not-found is answered with status 200 and a body that has an
\* error field and processed: false, and has issued no mutation.
C17_UnanticipatedCaught ==
  \A d \in Deliveries :
     (Arrived(d)
      /\ (UnparseableBody(d) \/ ClassifierException(d)
            \/ OtherLookupFailure(d)))
     => AnsweredAsError(d)

\* the part of C17 that the handler does keep: every such exception but a
\* lookup failure whose message happens to contain 'not found' or 'null'
C17_CaughtUnlessMessageMatches ==
  \A d \in Deliveries :
     (Arrived(d)
      /\ (UnparseableBody(d) \/ ClassifierException(d)
            \/ (OtherLookupFailure(d)
                /\ ~ContainsAnyCase(lookup[d].error.message, MsgNotFound)
                /\ ~ContainsAnyCase(lookup[d].error.message, MsgNull))))
     => AnsweredAsError(d)

C17_SocketErrorCaught ==
  \E d \in Deliveries :
     /\ OtherLookupFailure(d)
     /\ lookup[d].error = ErrSocket
     /\ AnsweredAsError(d)

\* C18: when the lookup finds the order and its shipment list is empty,
\* the delivery is answered with status 200 and the no-shipments result,
\* which has no error field, and no mutation is issued.
C18_EmptyShipmentsNotAnError ==
  \A d \in Deliveries :
     FoundEmpty(d)
     => /\ pc[d] = "done"
        /\ Len(resp[d]) = 1
        /\ resp[d][1].status = 200
        /\ ~Has(Body(d), "error")
        /\ Has(Body(d), "message")
        /\ Body(d).message = "No shipments to reassign"
        /\ Body(d).processed = FALSE
        /\ mutations[d] = <<>>

C18_Witness ==
  \E d \in Deliveries :
     /\ FoundEmpty(d)
     /\ ds.synced
     /\ queries[d] = <<DsOrderKey>>
     /\ resp[d] = <<NoShipmentsResponse>>
     /\ mutations[d] = <<>>


\* what a delivery does is what its own request and the answers to its own
\* downstream calls determine
OwnResult(d) ==
  LET first == TopicStage(req[d])
  IN /\ first.to = "done"
          => (resp[d] = first.responses /\ NoDownstreamCall(d))
     /\ first.to = "waiting"
          => /\ skuSavvyOrderId[d] = first.key
             /\ \A i \in 1..Len(queries[d]) : queries[d][i] = first.key
             /\ lookup[d] = JsNull => (resp[d] = <<>> /\ mutations[d] = <<>>)
             /\ lookup[d] # JsNull =>
                  LET second ==
                        TryCatch(QueryStage(OrderOf(d), lookup[d], steps[d]))
                  IN /\ second.to = "done"
                          => (resp[d] = second.responses
                              /\ mutations[d] = <<>>)
                     /\ second.to = "mutating"
                          => /\ Len(AttemptedIds(d)) <= Len(ExpectedIds(d))
                             /\ \A i \in 1..Len(mutations[d]) :
                                   /\ AttemptedIds(d)[i] = ExpectedIds(d)[i]
                                   /\ mutations[d][i].orderId
                                        = lookup[d].data.order.id
                             /\ reassignedCount[d] = OkCount(d)
                             /\ pc[d] = "mutating" => resp[d] = <<>>
                             /\ pc[d] = "done"
                                  => /\ AttemptedIds(d) = ExpectedIds(d)
                                     /\ resp[d]
                                          = <<SuccessResponse(OrderOf(d),
                                                              OkCount(d))>>

\* a step leaves everything the handler holds for delivery e as it is
Untouched(e) ==
  /\ pc'[e] = pc[e]
  /\ req'[e] = req[e]
  /\ resp'[e] = resp[e]
  /\ waits'[e] = waits[e]
  /\ skuSavvyOrderId'[e] = skuSavvyOrderId[e]
  /\ queries'[e] = queries[e]
  /\ lookup'[e] = lookup[e]
  /\ orderData'[e] = orderData[e]
  /\ idx'[e] = idx[e]
  /\ reassignedCount'[e] = reassignedCount[e]
  /\ mutations'[e] = mutations[e]

\* the next step of delivery d can be taken
CanProgress(d) ==
  /\ pc[d] = "idle" => ENABLED Receive(d)
  /\ pc[d] = "waiting" => ENABLED GraceTimerFires(d)
  /\ pc[d] = "querying" => ENABLED QueryReturns(d)
  /\ pc[d] = "mutating" => ENABLED MutationReturns(d)

\* C19: with two deliveries in flight, every step of the handler changes
\* what it holds for one delivery only; the calls and the response of each
\* delivery are those its own request and its own downstream answers
\* determine; and whatever the other delivery is doing (waiting, query or
\* mutation pending), a delivery that has not responded can take its next
\* step.
C19_DeliveriesIndependent ==
  /\ [](\A d \in Deliveries : Arrived(d) => OwnResult(d))
  /\ [](\A d \in Deliveries : CanProgress(d))
  /\ [][\E d \in Deliveries : \A e \in Deliveries \ {d} : Untouched(e)]_vars

\* both deliveries are of pickup orders with different lookup keys; one
\* responded with its count while the other was still waiting
C19_Witness ==
  \E d, e \in Deliveries :
     /\ d # e
     /\ pc[d] = "done"
     /\ pc[e] = "waiting"
     /\ skuSavvyOrderId[d] # skuSavvyOrderId[e]
     /\ OkCount(d) = 1
     /\ Len(mutations[d]) = 2
     /\ resp[d] = <<SuccessResponse(OrderOf(d), 1)>>


\* the call the delivery is awaiting has settled in this step
CallSettles(d) ==
  \/ pc[d] = "querying" /\ lookup[d] = JsNull /\ lookup'[d] # JsNull
  \/ /\ pc[d] = "mutating"
     /\ mutations[d][Len(mutations[d])].outcome = "pending"
     /\ mutations'[d][Len(mutations[d])].outcome # "pending"

\* C20: a delivery that has been received eventually sends its one
\* response, given that the grace timer fires and that every downstream
\* call settles; and while a downstream call of a delivery is pending the
\* delivery has sent nothing and its only step is the settling of that
\* call: the handler has no timeout that would end the wait.
C20_RunsToCompletion ==
  /\ \A d \in Deliveries :
        Arrived(d) ~> (pc[d] = "done" /\ Len(resp[d]) = 1)
  /\ [](\A d \in Deliveries :
          pc[d] \in {"querying", "mutating"} => resp[d] = <<>>)
  /\ [][\A d \in Deliveries :
          (pc[d] \in {"querying", "mutating"}
           /\ (pc'[d] # pc[d] \/ resp'[d] # resp[d]
                 \/ mutations'[d] # mutations[d]))
          => CallSettles(d)
       ]_vars

C20_Witness ==
  \E d \in Deliveries :
     /\ pc[d] = "done"
     /\ Len(resp[d]) = 1
     /\ waits[d] = 1
     /\ Len(queries[d]) = 1
     /\ Len(mutations[d]) = 2
     /\ \A i \in 1..2 : Failed(mutations[d][i])


\* the tags and the code and title of each shipping line, lower-cased,
\* an absent one being empty
LowerText(t) == [i \in 1..Len(t) |-> toLowerChar(t[i])]
ClassifiedFields(order) ==
  [tags |-> LowerText(TextOf(order, "tags")),
   shipping_lines |->
     [i \in 1..Len(LinesOf(order)) |->
        [code |-> LowerText(TextOf(LinesOf(order)[i], "code")),
         title |-> LowerText(TextOf(LinesOf(order)[i], "title"))]]]

\* C21: two orders that agree, after lower-casing, on their tags and on
\* the code and title of each shipping line get the same classification,
\* whatever other fields they have; and the step in which the classifier
\* runs issues no query and no mutation.
C21_DecidedByTagsAndLines ==
  /\ []((cDone /\ cTwin # JsNull
         /\ ClassifiedFields(cOrder) = ClassifiedFields(cTwin))
        => cTwinResult = cResult)
  /\ [][cDone' # cDone
        => (queries' = queries /\ mutations' = mutations)]_vars

\* a lower-case order without a pickup keyword and its upper-case twin
\* that has the keyword in a field the classifier does not read
C21_Witness ==
  /\ cDone
  /\ cTwin # JsNull
  /\ cTwin # cOrder
  /\ ClassifiedFields(cOrder) = ClassifiedFields(cTwin)
  /\ Has(cTwin, "note")
  /\ ContainsAnyCase(cTwin.note, WordPickup)
  /\ Has(cOrder, "shipping_lines")
  /\ Len(cOrder.shipping_lines) = 2
  /\ cTwin.shipping_lines # cOrder.shipping_lines
  /\ cResult = FALSE
  /\ cTwinResult = FALSE

\* all sampled twins do agree with the order they were made from
C21_TwinsAgree ==
  cTwin # JsNull => ClassifiedFields(cOrder) = ClassifiedFields(cTwin)


\* the position in the found shipment list of the shipment a mutation names
PositionOf(d, m) ==
  CHOOSE j \in 1..Len(FoundShipments(d)) :
     ParseInt(FoundShipments(d)[j].id) = m.shipmentId

\* C22: every mutation of a delivery carries the order id its own lookup
\* returned and the id of a shipment of that lookup's list; the mutations
\* follow the order of the list, so no shipment is attempted twice, also
\* after a failure; and a mutation is issued only when the one before it
\* has settled.
C22_MutationsFollowLookup ==
  \A d \in Deliveries :
     \A i \in 1..Len(mutations[d]) :
        /\ lookup[d] # JsNull
        /\ lookup[d].ok
        /\ lookup[d].data.order # JsNull
        /\ mutations[d][i].orderId = lookup[d].data.order.id
        /\ \E j \in 1..Len(lookup[d].data.order.shipments) :
              ParseInt(lookup[d].data.order.shipments[j].id)
                = mutations[d][i].shipmentId
        /\ \A k \in 1..(i - 1) :
              /\ PositionOf(d, mutations[d][k]) < PositionOf(d, mutations[d][i])
              /\ mutations[d][k].outcome # "pending"
        /\ mutations[d][i].outcome = "pending"
              => (pc[d] = "mutating" /\ i = Len(mutations[d]))

C22_Witness ==
  \E d \in Deliveries :
     /\ pc[d] = "done"
     /\ Len(mutations[d]) = 2
     /\ Failed(mutations[d][1])
     /\ mutations[d][2].outcome = "ok"
     /\ mutations[d][1].orderId = DsOrderUuid
     /\ mutations[d][1].shipmentId = 11
     /\ mutations[d][2].shipmentId = 12
     /\ OrderOf(d).id = 5001
     /\ skuSavvyOrderId[d] = DsOrderKey


\* s without the first occurrence of sub
FirstAt(s, sub) ==
  {i \in 0..(Len(s) - Len(sub)) : \A k \in 1..Len(sub) : s[i + k] = sub[k]}
WithoutFirst(s, sub) ==
  IF FirstAt(s, sub) = {}
  THEN s
  ELSE LET i == CHOOSE i \in FirstAt(s, sub) : \A j \in FirstAt(s, sub) : i <= j
       IN [k \in 1..(Len(s) - Len(sub)) |->
             IF k <= i THEN s[k] ELSE s[k + Len(sub)]]
AllDigits(s) == Len(s) > 0 /\ \A k \in 1..Len(s) : s[k] \in {"0", "1"}
AfterPrefix(s, n) == [k \in 1..(Len(s) - n) |-> s[k + n]]
HasPrefix(s, pre) ==
  Len(s) >= Len(pre) /\ \A k \in 1..Len(pre) : s[k] = pre[k]

\* C23: the lookup key is the order name without its first "#APA" and then
\* without its first remaining "#"; for a name "#APA<digits>" or
\* "#<digits>" it is <digits>.
C23_KeyIsNameWithoutPrefix ==
  kDone =>
    /\ kKey = WithoutFirst(WithoutFirst(kName, <<"#","A","P","A">>), <<"#">>)
    /\ (HasPrefix(kName, <<"#","A","P","A">>) /\ AllDigits(AfterPrefix(kName, 4)))
         => kKey = AfterPrefix(kName, 4)
    /\ (HasPrefix(kName, <<"#">>) /\ AllDigits(AfterPrefix(kName, 1)))
         => kKey = AfterPrefix(kName, 1)

C23_Witness ==
  /\ kDone
  /\ kName = <<"#","A","P","A","1","0">>
  /\ kKey = <<"1","0">>

\* only the first occurrence of each prefix is removed
C23_SecondHashKept ==
  /\ kDone
  /\ kName = <<"#","A","P","A","#","#">>
  /\ kKey = <<"#">>


\* the shipments the lookup of src/register-webhook.js found
FoundFirst(d) ==
  /\ lookup[d] # JsNull
  /\ lookup[d].ok
  /\ Len(lookup[d].data.orders) > 0
ShipmentsOfFirst(d) == lookup[d].data.orders[1].shipments

\* C24: in the handler of src/register-webhook.js, a delivery that found
\* its order attempts its shipments in list order whatever their
\* warehouse; when it has responded, every shipment has had exactly one
\* attempt and shipmentsReassigned is the number of attempts that
\* succeeded.
C24_VariantReassignsAll ==
  \A d \in Deliveries :
     FoundFirst(d)
     => /\ Len(mutations[d]) <= Len(ShipmentsOfFirst(d))
        /\ \A i \in 1..Len(mutations[d]) :
              mutations[d][i].shipmentId = ParseInt(ShipmentsOfFirst(d)[i].id)
        /\ (pc[d] = "done" /\ Len(ShipmentsOfFirst(d)) > 0)
             => /\ Len(mutations[d]) = Len(ShipmentsOfFirst(d))
                /\ Has(Body(d), "shipmentsReassigned")
                /\ Body(d).shipmentsReassigned = OkCount(d)

\* both shipments were at the target warehouse already and both got a
\* mutation, one of which failed
C24_Witness ==
  \E d \in Deliveries :
     /\ FoundFirst(d)
     /\ pc[d] = "done"
     /\ Len(ds.shipments) = 2
     /\ \A i \in 1..2 : ~NotAtTarget(ds.shipments[i])
     /\ Len(mutations[d]) = 2
     /\ Failed(mutations[d][1])
     /\ mutations[d][2].outcome = "ok"
     /\ Body(d).shipmentsReassigned = 1


\* C25: a received POST to /webhooks/orders/create gets exactly one
\* response: a delivery never has two responses; it has one exactly when
\* its handler has ended; until then it is at one of the awaits and can go
\* on; the top-level catch has run only in deliveries whose one response is
\* its own; and the response is never that of the '/webhooks/*' route.
C25_ExactlyOneResponse ==
  /\ [](\A d \in Deliveries :
          /\ Len(resp[d]) <= 1
          /\ Arrived(d) => (pc[d] = "done" <=> Len(resp[d]) = 1)
          /\ (Arrived(d) /\ pc[d] # "done")
               => (pc[d] \in {"waiting", "querying", "mutating"}
                   /\ CanProgress(d))
          /\ "catch" \in steps[d]
               => (Len(resp[d]) = 1 /\ Has(Body(d), "error"))
          /\ \A i \in 1..Len(resp[d]) :
                resp[d][i].body # [message |-> "Webhook ignored"])
  /\ [][\A d \in Deliveries :
          resp'[d] # resp[d]
          => (pc[d] # "done" /\ pc'[d] = "done"
              /\ Len(resp'[d]) = Len(resp[d]) + 1)
       ]_vars

\* the try block got as far as the loop, and the response is the success
\* response alone
C25_Witness ==
  \E d \in Deliveries :
     /\ pc[d] = "done"
     /\ Len(resp[d]) = 1
     /\ "loop" \in steps[d]
     /\ "catch" \notin steps[d]
     /\ Len(mutations[d]) = 1
     /\ Has(Body(d), "success")


\* C26: at every point of the loop and in the final response, the
\* reassigned count is the number of the delivery's mutation calls that
\* succeeded, which is at most the number of calls issued, which is at
\* most the number of found shipments that were not at the target
\* warehouse.
C26_CountIsSuccessfulCalls ==
  \A d \in Deliveries :
     /\ reassignedCount[d] = OkCount(d)
     /\ OkCount(d) <= Len(mutations[d])
     /\ mutations[d] # <<>>
          => (HasFoundShipments(d)
              /\ Len(mutations[d]) <= Len(ExpectedIds(d)))
     /\ (pc[d] = "done" /\ Has(Body(d), "shipmentsReassigned"))
          => Body(d).shipmentsReassigned = OkCount(d)

\* in the middle of the loop: one call succeeded, the second is pending
C26_Witness ==
  \E d \in Deliveries :
     /\ pc[d] = "mutating"
     /\ Len(mutations[d]) = 2
     /\ mutations[d][1].outcome = "ok"
     /\ mutations[d][2].outcome = "pending"
     /\ reassignedCount[d] = 1
     /\ Len(ExpectedIds(d)) = 2

\* a final response whose count is below the number of calls issued
C26_CountBelowCalls ==
  \E d \in Deliveries :
     /\ pc[d] = "done"
     /\ Len(mutations[d]) = 2
     /\ Has(Body(d), "shipmentsReassigned")
     /\ Body(d).shipmentsReassigned = 0


\* the delivery is of an order that has order_number and id, is a pickup
\* order by its tags, and has no name
PickupWithoutName(d) ==
  /\ Arrived(d)
  /\ req[d].topic = ExpectedTopic
  /\ req[d].body.kind = "json"
  /\ OrderOf(d) # JsNull
  /\ Has(OrderOf(d), "order_number") /\ OrderOf(d).order_number # 0
  /\ Has(OrderOf(d), "id") /\ OrderOf(d).id # 0
  /\ HasPickupTag(OrderOf(d))
  /\ ~Has(OrderOf(d), "name")

\* C27: a valid pickup order without a name is answered with status 200,
\* an error field and processed: false; no grace-period wait is started
\* and no query or mutation is issued for it.
C27_NoNameIsCaught ==
  \A d \in Deliveries :
     PickupWithoutName(d)
     => /\ AnsweredAsError(d)
        /\ waits[d] = 0
        /\ NoDownstreamCall(d)

C27_Witness ==
  \E d \in Deliveries :
     /\ PickupWithoutName(d)
     /\ "key" \in steps[d]
     /\ "catch" \in steps[d]
     /\ "wait" \notin steps[d]
     /\ resp[d] = <<CatchResponse(TypeErrorNoName)>>


\* delivery d is over, found shipments, reassigned at least one, and
\* every one of its reassignments succeeded
FirstDeliverySucceeded(d) ==
  /\ AllSucceeded(d)
  /\ mutations[d] # <<>>

\* the lookup query of delivery e settles in this step and finds the order
LookupFindsOrder(e) ==
  /\ pc[e] = "querying"
  /\ lookup[e] = JsNull
  /\ lookup'[e] # JsNull
  /\ lookup'[e].ok
  /\ lookup'[e].data.order # JsNull

\* C28: when the lookup of a delivery finds the order after another
\* delivery of the same order has ended with every reassignment
\* succeeded, the later delivery ends at once with zero mutation calls and
\* shipmentsReassigned = 0.
C28_RedeliveryIdempotent ==
  [][\A d, e \in Deliveries :
       (d # e /\ FirstDeliverySucceeded(d) /\ req[e] = req[d]
        /\ LookupFindsOrder(e))
       => /\ \A i \in 1..Len(lookup'[e].data.order.shipments) :
                ~NotAtTarget(lookup'[e].data.order.shipments[i])
          /\ pc'[e] = "done"
          /\ mutations'[e] = <<>>
          /\ Len(resp'[e]) = 1
          /\ Has(resp'[e][1].body, "shipmentsReassigned")
          /\ resp'[e][1].body.shipmentsReassigned = 0
    ]_vars

\* the first delivery reassigned two shipments; the second one of the same
\* order found them at the target warehouse and reassigned none
C28_Witness ==
  \E d, e \in Deliveries :
     /\ d # e
     /\ FirstDeliverySucceeded(d)
     /\ Len(mutations[d]) = 2
     /\ Body(d).shipmentsReassigned = 2
     /\ req[e] = req[d]
     /\ pc[e] = "done"
     /\ lookup[e] # JsNull
     /\ lookup[e].ok
     /\ lookup[e].data.order # JsNull
     /\ \A i \in 1..2 : ~NotAtTarget(lookup[e].data.order.shipments[i])
     /\ mutations[e] = <<>>
     /\ Body(e).shipmentsReassigned = 0


\* the mutation calls of delivery d that name shipment sid
CallsFor(d, sid) ==
  {i \in 1..Len(mutations[d]) : mutations[d][i].shipmentId = sid}
SampleShipmentNumbers == {ParseInt(ShipmentIds[i]) : i \in 1..Len(ShipmentIds)}
SameOrderPair(d, e) ==
  /\ d # e
  /\ Arrived(d)
  /\ Arrived(e)
  /\ req[d] = req[e]

\* C29 as stated: across two deliveries of the same order, a shipment gets
\* at most one reassign mutation in total.
C29_AsStated ==
  \A d, e \in Deliveries :
     SameOrderPair(d, e)
     => \A sid \in SampleShipmentNumbers :
           Cardinality(CallsFor(d, sid)) + Cardinality(CallsFor(e, sid)) <= 1

\* the lookup of delivery d found shipment sid away from the target
SawAway(d, sid) ==
  /\ HasFoundShipments(d)
  /\ \E j \in 1..Len(FoundShipments(d)) :
        /\ ParseInt(FoundShipments(d)[j].id) = sid
        /\ NotAtTarget(FoundShipments(d)[j])

\* C29 as amended: a shipment gets at most one reassign mutation from each
\* delivery, and only from a delivery whose own lookup found it away from
\* the target warehouse; two concurrent deliveries of the same order whose
\* lookups both settle before the shipment is reassigned both send the
\* mutation, so it can get two in total.
C29_OnePerDeliveryThatSawItAway ==
  \A d \in Deliveries :
     \A sid \in SampleShipmentNumbers :
        /\ Cardinality(CallsFor(d, sid)) <= 1
        /\ CallsFor(d, sid) # {} => SawAway(d, sid)

\* both deliveries of the same order reassigned shipment 11, and both
\* calls succeeded
C29_Witness ==
  \E d, e \in Deliveries :
     /\ SameOrderPair(d, e)
     /\ pc[d] = "done"
     /\ pc[e] = "done"
     /\ \E i \in CallsFor(d, 11) : mutations[d][i].outcome = "ok"
     /\ \E i \in CallsFor(e, 11) : mutations[e][i].outcome = "ok"
     /\ Body(d).shipmentsReassigned = 1
     /\ Body(e).shipmentsReassigned = 1

====
